---- MODULE Spec2Model ----
(***************************************************************************)
(* The inline-requires optimizer of src/unnamed/part_000: the memoized     *)
(* side-effect index (loadBundleConfig), the driver (optimize) and the     *)
(* tree traversal of PackagedModuleVisitor.                                *)
(*                                                                         *)
(* Syntax trees are values [type, value, kids]: `type` is the swc node     *)
(* type, `value` the node's name or literal and `kids` its children in     *)
(* visiting order.  A node is identified by its path from the root (the    *)
(* indices into `kids`), which stands for the object identity the code     *)
(* compares with ===.  Strings the code takes apart (startsWith, endsWith, *)
(* substring) are sequences of lexemes: "$abcDefault" is <<"$", "abc",     *)
(* "Default">>.                                                            *)
(***************************************************************************)
EXTENDS Integers, Sequences, FiniteSets, TLC

VARIABLES
  publicIdToAssetSideEffects, \* the module-level cache (line 224)
  config,                     \* history of loadBundleConfig: calls, walks, returned values
  task,                       \* per bundle: the locals of one optimize invocation
  visitor,                    \* per bundle: the fields of its PackagedModuleVisitor
  logger,                     \* per bundle: what was logged through `logger`
  hist                        \* per bundle: what the traversal did (history only)

vars == <<publicIdToAssetSideEffects, config, task, visitor, logger, hist>>

(***************************************************************************)
(* Bounds                                                                  *)
(***************************************************************************)
\* statements in the body of a module factory
MaxBody == 2
\* nodes of a bundle graph handed to loadBundleConfig
MaxNodes == 2
\* loadBundleConfig calls in one process
MaxCalls == 3

(***************************************************************************)
(* Syntax trees                                                            *)
(***************************************************************************)
Node(t, v, k) == [type |-> t, value |-> v, kids |-> k]

NullNode == Node("Null", <<>>, <<>>)
UndefinedNode == Node("undefined", <<>>, <<>>)
Identifier(v) == Node("Identifier", v, <<>>)
ObjectPattern == Node("ObjectPattern", <<>>, <<>>)
StringLiteral(v) == Node("StringLiteral", v, <<>>)
NumericLiteral(v) == Node("NumericLiteral", v, <<>>)
\* init.callee.value is the node's value, init.arguments its kids
CallExpression(callee, arguments) == Node("CallExpression", callee, arguments)
\* n.params (the names of its identifier parameters) is the node's value
FunctionExpression(params, body) == Node("FunctionExpression", params, body)
\* decl.id is kids[1], decl.init is kids[2] (NullNode when absent)
VariableDeclarator(id, init) == Node("VariableDeclarator", <<>>, <<id, init>>)
VariableDeclaration(declarations) == Node("VariableDeclaration", <<>>, declarations)
ExpressionStatement(e) == Node("ExpressionStatement", <<>>, <<e>>)
Program(body) == Node("Module", <<>>, body)

RECURSIVE NodeAt(_, _)
NodeAt(tree, path) ==
  IF path = <<>> THEN tree ELSE NodeAt(tree.kids[Head(path)], Tail(path))

RECURSIVE HasPath(_, _)
HasPath(tree, path) ==
  \/ path = <<>>
  \/ /\ Head(path) \in 1..Len(tree.kids)
     /\ HasPath(tree.kids[Head(path)], Tail(path))

RECURSIVE ReplaceAt(_, _, _)
ReplaceAt(tree, path, new) ==
  IF path = <<>> THEN new
  ELSE [tree EXCEPT !.kids[Head(path)] = ReplaceAt(@, Tail(path), new)]

RECURSIVE Paths(_)
Paths(tree) ==
  {<<>>} \cup UNION {{<<i>> \o p : p \in Paths(tree.kids[i])} : i \in 1..Len(tree.kids)}

IsPrefix(p, q) == Len(p) <= Len(q) /\ SubSeq(q, 1, Len(p)) = p

RECURSIVE Flatten(_)
Flatten(seqs) == IF seqs = <<>> THEN <<>> ELSE Head(seqs) \o Flatten(Tail(seqs))

(***************************************************************************)
(* Strings                                                                 *)
(***************************************************************************)
StartsWith(s, lexeme) == Len(s) > 0 /\ s[1] = lexeme
EndsWith(s, lexeme) == Len(s) > 0 /\ s[Len(s)] = lexeme

(***************************************************************************)
(* The base Visitor: the nodes this class overrides a visit method for     *)
(***************************************************************************)
Overridden == {"FunctionExpression", "VariableDeclaration", "Identifier"}

\* The visits the base class makes from the node at `path`: the paths of the
\* outermost overridden nodes at or below it, in visiting order.
RECURSIVE Dispatch(_, _)
Dispatch(tree, path) ==
  LET n == NodeAt(tree, path) IN
  IF n.type \in Overridden THEN <<[op |-> "visit", path |-> path]>>
  ELSE Flatten([i \in 1..Len(n.kids) |-> Dispatch(tree, path \o <<i>>)])

\* super.visitX(n): the visits of n's children
VisitChildren(tree, path) ==
  LET n == NodeAt(tree, path) IN
  Flatten([i \in 1..Len(n.kids) |-> Dispatch(tree, path \o <<i>>)])

\* the node is handed back without a wrapper
getReplacementExpressionBare(requireCallNode) == requireCallNode

(***************************************************************************)
(* getReplacementExpression: the tree of `(0, n)`                          *)
(***************************************************************************)
getReplacementExpression(requireCallNode) ==
  Node("ParenthesisExpression", <<>>,
       <<Node("SequenceExpression", <<>>,
              <<NumericLiteral(<<"0">>), requireCallNode>>)>>)

(***************************************************************************)
(* The side-effect index: null, or a Map publicId -> {sideEffects,         *)
(* filePath}                                                               *)
(***************************************************************************)
EmptyEntries == [k \in {} |-> [sideEffects |-> FALSE, filePath |-> <<>>]]
NullIndex == [isNull |-> TRUE, entries |-> EmptyEntries]
NewMap == [isNull |-> FALSE, entries |-> EmptyEntries]

MapSet(m, k, v) == [x \in DOMAIN m \cup {k} |-> IF x = k THEN v ELSE m[x]]

(***************************************************************************)
(* PackagedModuleVisitor                                                   *)
(***************************************************************************)
EmptyVariableMap == [k \in {} |-> NullNode]

\* constructor, lines 30-39
NewVisitor ==
  [inModuleDefinition |-> <<>>,       \* false; <<p>> is the node at path p
   moduleVariables |-> {},
   moduleVariableMap |-> EmptyVariableMap,
   dirty |-> FALSE]

\* Map.prototype.get: undefined for a key that is not there
MapGet(m, k) == IF k \in DOMAIN m THEN m[k] ELSE UndefinedNode

\* lines 53-64: the first three parameters are require, module, exports
IsModuleDefinition(n) ==
  /\ Len(n.value) >= 3
  /\ n.value[1] = "require"
  /\ n.value[2] = "module"
  /\ n.value[3] = "exports"

\* entering a module definition replaces the set of names, not the map
EnterFunctionKeepMap(v, n, path) ==
  IF IsModuleDefinition(n)
  THEN [v EXCEPT !.inModuleDefinition = <<path>>, !.moduleVariables = {}]
  ELSE v

\* lines 60-69: entering a function expression found at `path`
EnterFunction(v, n, path) ==
  IF IsModuleDefinition(n)
  THEN [v EXCEPT !.inModuleDefinition = <<path>>,
                 !.moduleVariables = {},
                 !.moduleVariableMap = EmptyVariableMap]
  ELSE v

\* the module definition is never left
ExitFunctionNever(v, path) == v

\* lines 75-77: leaving the function expression found at `path`
ExitFunction(v, path) ==
  IF <<path>> = v.inModuleDefinition
  THEN [v EXCEPT !.inModuleDefinition = <<>>]
  ELSE v

\* lines 95-96
CalleeIsRequire(init) == init.value \in {<<"require">>, <<"parcelRequire">>}

\* decl.id.value is undefined unless decl.id is an Identifier
IdIs(decl, name) == decl.kids[1].type = "Identifier" /\ decl.kids[1].value = name

\* lines 94-99 raise a TypeError: no first argument to read `.expression` of
\* (line 98), or no string to call startsWith on (line 99)
RequireTestThrows(decl) ==
  LET init == decl.kids[2] IN
  /\ CalleeIsRequire(init)
  /\ ~IdIs(decl, <<"parcelHelpers">>)
  /\ \/ Len(init.kids) = 0
     \/ /\ init.kids[1].type = "StringLiteral"
        /\ decl.kids[1].type # "Identifier"

\* lines 94-100
IsRequireBinding(decl) ==
  LET init == decl.kids[2] IN
  /\ CalleeIsRequire(init)
  /\ ~IdIs(decl, <<"parcelHelpers">>)
  /\ init.kids[1].type = "StringLiteral"
  /\ StartsWith(decl.kids[1].value, "$")

\* lines 145-149
IsDefaultBinding(decl) ==
  /\ decl.kids[1].type = "Identifier"
  /\ EndsWith(decl.kids[1].value, "Default")
  /\ StartsWith(decl.kids[1].value, "$")

\* lines 111-114
Unresolved(index, assetPublicId) ==
  index.isNull \/ assetPublicId \notin DOMAIN index.entries

\* the sideEffects flag is not looked at
HasSideEffectsIgnored(index, assetPublicId) == FALSE

\* lines 119-120
HasSideEffects(index, assetPublicId) == index.entries[assetPublicId].sideEffects

\* the declarator is nulled and nothing is put in the tables
RegisterNothing(st, i, name, init) ==
  [st EXCEPT !.declarations[i].kids[2] = NullNode,
             !.unusedDeclIndexes = Append(@, i),
             !.captured = Append(@, init)]

\* lines 130-144 and 176-180: register the name, null the declarator
Register(st, i, name, init) ==
  [st EXCEPT !.moduleVariableMap = MapSet(@, name, init),
             !.moduleVariables = @ \cup {name},
             !.declarations[i].kids[2] = NullNode,
             !.unusedDeclIndexes = Append(@, i),
             !.captured = Append(@, init)]

\* lines 172-175: init.arguments[0] = {spread: null, expression: ...}
SetFirstArgument(init, expression) ==
  [init EXCEPT !.kids = IF Len(@) = 0 THEN <<expression>>
                        ELSE [@ EXCEPT ![1] = expression]]

\* lines 88-181: one turn of the loop over n.declarations
VisitDeclarator(st, i, index) ==
  LET decl == st.declarations[i]
      init == decl.kids[2]
      name == decl.kids[1].value
  IN
  IF init.type # "CallExpression" THEN st
  ELSE IF RequireTestThrows(decl) THEN [st EXCEPT !.threw = TRUE]
  ELSE IF IsRequireBinding(decl) THEN
    LET assetPublicId == Tail(name) IN
    IF Unresolved(index, assetPublicId)
    THEN Register([st EXCEPT !.warned = Append(@, assetPublicId)], i, name, init)
    ELSE IF HasSideEffects(index, assetPublicId) THEN st
    ELSE Register(st, i, name, init)
  ELSE IF IsDefaultBinding(decl) THEN
    LET baseId == SubSeq(name, 1, Len(name) - 1) IN
    IF baseId \notin st.moduleVariables THEN st
    ELSE Register(st, i, name,
                  SetFirstArgument(init, MapGet(st.moduleVariableMap, baseId)))
  ELSE st

\* lines 86-182: the loop; a TypeError ends it.  `before` keeps the tables
\* each turn started with (history only).
RECURSIVE DeclarationLoop(_, _, _)
DeclarationLoop(st, i, index) ==
  IF i > Len(st.declarations) \/ st.threw THEN st
  ELSE DeclarationLoop(
         [VisitDeclarator(st, i, index) EXCEPT
            !.before = Append(@, [moduleVariables |-> st.moduleVariables,
                                  moduleVariableMap |-> st.moduleVariableMap])],
         i + 1, index)

\* lines 81-182: the state of visitVariableDeclaration(n) when its loop ends
ClassifyDeclarations(v, n, index) ==
  DeclarationLoop([declarations |-> n.kids,
                   moduleVariables |-> v.moduleVariables,
                   moduleVariableMap |-> v.moduleVariableMap,
                   unusedDeclIndexes |-> <<>>,
                   captured |-> <<>>,
                   before |-> <<>>,
                   warned |-> <<>>,
                   threw |-> FALSE], 1, index)

\* dirty is never set
DirtyNeverSet(dirty, st) == dirty

\* lines 183-188: this.dirty once the loop has ended (not reached when the
\* loop raised)
DirtyAfterLoop(dirty, st) ==
  IF ~st.threw /\ st.unusedDeclIndexes # <<>> THEN TRUE ELSE dirty

\* line 209
IsTracked(v, n) == n.value \in v.moduleVariables

\* lines 210-217: the identifier node becomes the replacement expression
Substitute(v, n) == getReplacementExpression(MapGet(v.moduleVariableMap, n.value))

(***************************************************************************)
(* loadBundleConfig                                                        *)
(***************************************************************************)
Asset(publicId, sideEffects) ==
  [type |-> "asset",
   value |-> [publicId |-> publicId, sideEffects |-> sideEffects,
              filePath |-> publicId \o <<".js">>]]
Dependency == [type |-> "dependency", value |-> Asset(<<>>, FALSE).value]

GraphNodes ==
  {Asset(<<"a">>, FALSE), Asset(<<"a">>, TRUE), Asset(<<"a", "Default">>, TRUE),
   Dependency}

\* the nodes of a bundle graph, in the order bundleGraph.traverse visits them
Graphs == UNION {[1..k -> GraphNodes] : k \in 0..MaxNodes}

\* lines 236-244: the callback of bundleGraph.traverse
VisitGraphNode(index, node) ==
  IF node.type = "asset"
  THEN [index EXCEPT !.entries =
          MapSet(@, node.value.publicId,
                 [sideEffects |-> node.value.sideEffects,
                  filePath |-> node.value.filePath])]
  ELSE index

\* bundleGraph.traverse over the first k nodes of the graph
RECURSIVE Traverse(_, _, _)
Traverse(index, graph, k) ==
  IF k = 0 THEN index
  ELSE VisitGraphNode(Traverse(index, graph, k - 1), graph[k])

\* the cache is never found
IsCachedNever(index) == FALSE

\* line 228
IsCached(index) == ~index.isNull

\* lines 227-247.  `walked` is the number of nodes visited before
\* bundleGraph.traverse returns (Len(graph)) or raises (fewer).
LoadBundleConfig(graph, walked) ==
  /\ config.calls < MaxCalls
  /\ IF IsCached(publicIdToAssetSideEffects)
     THEN /\ walked = Len(graph)
          /\ UNCHANGED publicIdToAssetSideEffects
          /\ config' = [config EXCEPT
                          !.calls = @ + 1,
                          !.returned = Append(@, publicIdToAssetSideEffects)]
     ELSE /\ publicIdToAssetSideEffects' = Traverse(NewMap, graph, walked)
          /\ config' = [config EXCEPT
                          !.calls = @ + 1,
                          !.walks = @ + 1,
                          !.graph = graph,
                          !.raised = @ + (IF walked < Len(graph) THEN 1 ELSE 0),
                          !.returned = IF walked < Len(graph) THEN @
                                       ELSE Append(@, publicIdToAssetSideEffects')]
  /\ UNCHANGED <<task, visitor, logger, hist>>

\* what loadBundleConfig can return: {publicIdToAssetSideEffects}
BundleConfigs ==
  {[publicIdToAssetSideEffects |-> Traverse(NewMap, g, Len(g))] : g \in Graphs}

(***************************************************************************)
(* The bundles handed to optimize                                          *)
(***************************************************************************)
A == <<"$", "a">>
ADefault == <<"$", "a", "Default">>
RequireModuleExports == <<"require", "module", "exports">>

\* require("<publicId>")
Require(publicId) == CallExpression(<<"require">>, <<StringLiteral(publicId)>>)
\* parcelHelpers.interopDefault(e): the callee is a member expression, so
\* init.callee.value is undefined
InteropDefault(e) == CallExpression(<<>>, <<e>>)
Declarator(name, init) == VariableDeclarator(Identifier(name), init)

\* var $a = require("a");
DeclareA == VariableDeclaration(<<Declarator(A, Require(<<"a">>))>>)
\* $a;
ReadA == ExpressionStatement(Identifier(A))

\* use(function (<params>) { <inner> }, $a);
UseFunction(params, inner) ==
  ExpressionStatement(
    CallExpression(<<"use">>, <<FunctionExpression(params, inner), Identifier(A)>>))

Statements ==
  {DeclareA,
   ReadA,
   \* $aDefault;
   ExpressionStatement(Identifier(ADefault)),
   \* var $a = require("a"), x = $a;
   VariableDeclaration(<<Declarator(A, Require(<<"a">>)),
                         Declarator(<<"x">>, Identifier(A))>>),
   \* var $a = require("a"), $aDefault = parcelHelpers.interopDefault($a);
   VariableDeclaration(<<Declarator(A, Require(<<"a">>)),
                         Declarator(ADefault, InteropDefault(Identifier(A)))>>),
   \* var $aDefault = parcelHelpers.interopDefault($a), y = $aDefault;
   VariableDeclaration(<<Declarator(ADefault, InteropDefault(Identifier(A))),
                         Declarator(<<"y">>, Identifier(ADefault))>>),
   \* var $a;
   VariableDeclaration(<<Declarator(A, NullNode)>>),
   \* var {p} = require("a");
   VariableDeclaration(<<VariableDeclarator(ObjectPattern, Require(<<"a">>))>>),
   \* var $a = require("a"), f = function () { var $a = require("a"); };
   VariableDeclaration(<<Declarator(A, Require(<<"a">>)),
                         Declarator(<<"f">>, FunctionExpression(<<>>, <<DeclareA>>))>>),
   \* var $aDefault = require("aDefault");
   VariableDeclaration(<<Declarator(ADefault, Require(<<"a", "Default">>))>>)}
  \cup {UseFunction(<<>>, <<>>)}
  \cup {UseFunction(RequireModuleExports, inner) : inner \in {<<>>, <<DeclareA>>}}

Bodies == UNION {[1..k -> Statements] : k \in 1..MaxBody}

\* parcelRequire.register("a", function (require, module, exports) { <body> });
Factory(body) ==
  ExpressionStatement(
    CallExpression(<<>>, <<StringLiteral(<<"a">>),
                           FunctionExpression(RequireModuleExports, body)>>))

\* a module factory, with or without a top-level statement after it
Programs ==
  {Program(<<Factory(body)>> \o after) :
     body \in Bodies, after \in {<<>>, <<ReadA>>, <<DeclareA>>}}

Modes == {"production", "development"}
Maps == {"bundle.js.map"}
\* the bundle the one-bundle specification optimizes
Bundles == {"bundle.js"}
\* the bundles that can be in flight together
AllBundles == {"bundle.js", "vendor.js"}

\* every invocation works on one and the same visitor object
VisitorShared(b) == "bundle.js"

\* lines 256-260: `visitor` is a local of the invocation, built by it
VisitorOf(b) == b

\* The text of a bundle is kept as the tree it parses to.  A declarator whose
\* init was set to null prints as `var $a;` and parses back with no init,
\* which line 90 treats as it treats null; the replacement (0, e) prints and
\* parses back as the ParenthesisExpression it was built as.
Source(tree) == [code |-> tree]
\* parse(contents.toString('utf8')), line 255
Parse(contents) == contents.code
\* (await print(ast, {})).code, lines 263-264
PrintCode(tree) == [code |-> tree]

(***************************************************************************)
(* optimize                                                                *)
(***************************************************************************)
NoResult == [contents |-> Source(NullNode), map |-> ""]

IdleTask ==
  [pc |-> "idle", mode |-> "", contents |-> Source(NullNode), map |-> "",
   bundleConfig |-> [publicIdToAssetSideEffects |-> NullIndex],
   ast |-> NullNode, pending |-> <<>>, result |-> NoResult]

NoLog == [warn |-> <<>>, error |-> <<>>]

NewHist ==
  [run |-> 0,              \* optimize calls made for the bundle
   parses |-> 0,           \* parse calls of this run
   visitors |-> 0,         \* visitors constructed in this run
   prints |-> 0,           \* print calls of this run
   failure |-> "",         \* the stage that raised: "parse", "visit", "print"
   input |-> NullNode,     \* the tree as parsed
   declarators |-> {},     \* the paths of its variable declarators
   nulled |-> {},          \* paths of the declarators whose init was set to null
   substituted |-> {},     \* the identifiers replaced, and in what state
   visited |-> {},         \* paths handed to a visit method
   open |-> {},            \* module factories entered and not yet left
   exited |-> {},          \* function expressions whose visit has finished
   scopes |-> [k \in {} |-> {}],   \* name -> factories open when it was registered
   before |-> <<>>,        \* declarator path -> the visitor when it was classified
   captured |-> <<>>,      \* declarator path -> the expression registered for it
   firstDirty |-> FALSE,   \* visitor.dirty at the end of the first run
   concurrent |-> FALSE]   \* another invocation was in flight when this one began

\* the mode is not looked at
PassThroughNever(mode) == FALSE

\* line 250
PassThrough(mode) == mode # "production"

\* lines 251 and 273: {contents, map} as they were passed in
InputResult(t) == [contents |-> t.contents, map |-> t.map]

\* the printed tree is returned without the map it came with
PrintedResultNoMap(t) == [contents |-> PrintCode(t.ast), map |-> ""]

\* line 264
PrintedResult(t) == [contents |-> PrintCode(t.ast), map |-> t.map]

\* the error raised by a stage: its message and its stack
Failure(stage) ==
  [message |-> <<stage, "failed">>, stack |-> <<"at", stage>>]

\* the catch block returns the tree as the traversal left it
CaughtTaskPrinted(t) == [t EXCEPT !.pc = "done", !.result = PrintedResult(t)]

\* lines 266-273: the catch block returns the input
CaughtTask(t) == [t EXCEPT !.pc = "done", !.result = InputResult(t)]

\* lines 267-271: the catch block logs the error
CaughtLog(lg, b, stage) ==
  [lg EXCEPT !.error = Append(@,
     [origin |-> "parcel-optimizer-experimental-inline-requires",
      bundle |-> b,
      message |-> <<"Unable to optimise requires for", b>> \o Failure(stage).message,
      stack |-> Failure(stage).stack])]

StartRun(b, t) ==
  IF PassThrough(t.mode)
  THEN [t EXCEPT !.pc = "done", !.result = InputResult(t)]
  ELSE [t EXCEPT !.pc = "parse"]

\* lines 249-255: optimize is called and runs to its first await
Optimize(b, program, mode, map, bundleConfig) ==
  /\ task[b].pc = "idle"
  /\ task' = [task EXCEPT ![b] =
       StartRun(b, [IdleTask EXCEPT !.mode = mode, !.contents = Source(program),
                                    !.map = map, !.bundleConfig = bundleConfig])]
  /\ hist' = [hist EXCEPT ![b] =
       [NewHist EXCEPT !.run = 1,
                       !.concurrent = \E c \in AllBundles \ {b} :
                                        task[c].pc \notin {"idle", "done"}]]
  /\ UNCHANGED <<publicIdToAssetSideEffects, config, visitor, logger>>

\* the pass is applied to its own output: optimize is called again with the
\* contents the first call printed
OptimizeAgain(b) ==
  /\ task[b].pc = "done"
  /\ hist[b].run = 1
  /\ hist[b].prints = 1
  /\ hist[b].failure = ""
  /\ task' = [task EXCEPT ![b] =
       StartRun(b, [IdleTask EXCEPT !.mode = task[b].mode,
                                    !.contents = task[b].result.contents,
                                    !.map = task[b].result.map,
                                    !.bundleConfig = task[b].bundleConfig])]
  /\ hist' = [hist EXCEPT ![b] =
       [NewHist EXCEPT !.run = 2, !.firstDirty = visitor[VisitorOf(b)].dirty]]
  /\ UNCHANGED <<publicIdToAssetSideEffects, config, visitor, logger>>

\* lines 255-261: parse returns; the visitor is built and visitProgram starts
ParseReturns(b) ==
  /\ task[b].pc = "parse"
  /\ LET ast == Parse(task[b].contents) IN
     /\ task' = [task EXCEPT ![b].pc = "visit", ![b].ast = ast,
                             ![b].pending = Dispatch(ast, <<>>)]
     /\ hist' = [hist EXCEPT ![b].parses = @ + 1, ![b].visitors = @ + 1,
                             ![b].input = ast,
                             ![b].declarators =
                               {p \in Paths(ast) : NodeAt(ast, p).type = "VariableDeclarator"}]
  /\ visitor' = [visitor EXCEPT ![VisitorOf(b)] = NewVisitor]
  /\ UNCHANGED <<publicIdToAssetSideEffects, config, logger>>

\* line 255: parse raises
ParseThrows(b) ==
  /\ task[b].pc = "parse"
  /\ task' = [task EXCEPT ![b] = CaughtTask(@)]
  /\ logger' = [logger EXCEPT ![b] = CaughtLog(@, b, "parse")]
  /\ hist' = [hist EXCEPT ![b].parses = @ + 1, ![b].failure = "parse"]
  /\ UNCHANGED <<publicIdToAssetSideEffects, config, visitor>>

(***************************************************************************)
(* The traversal: visitProgram(ast) runs the visits in task[b].pending     *)
(***************************************************************************)
Visiting(b, type) ==
  /\ task[b].pc = "visit"
  /\ task[b].pending # <<>>
  /\ Head(task[b].pending).op = "visit"
  /\ NodeAt(task[b].ast, Head(task[b].pending).path).type = type

\* lines 41-72: visitFunctionExpression(n) up to the visit of n's children
VisitFunctionExpression(b) ==
  /\ Visiting(b, "FunctionExpression")
  /\ LET path == Head(task[b].pending).path
         n == NodeAt(task[b].ast, path)
     IN
     /\ visitor' = [visitor EXCEPT ![VisitorOf(b)] = EnterFunction(@, n, path)]
     /\ task' = [task EXCEPT ![b].pending =
          VisitChildren(task[b].ast, path)
            \o <<[op |-> "leave", path |-> path]>> \o Tail(@)]
     /\ hist' = [hist EXCEPT
          ![b].visited = @ \cup {path},
          ![b].open = IF IsModuleDefinition(n) THEN @ \cup {path} ELSE @,
          ![b].scopes = IF IsModuleDefinition(n) THEN [k \in {} |-> {}] ELSE @]
  /\ UNCHANGED <<publicIdToAssetSideEffects, config, logger>>

\* lines 74-78: visitFunctionExpression(n) after the visit of n's children
LeaveFunctionExpression(b) ==
  /\ task[b].pc = "visit"
  /\ task[b].pending # <<>>
  /\ Head(task[b].pending).op = "leave"
  /\ LET path == Head(task[b].pending).path IN
     /\ visitor' = [visitor EXCEPT ![VisitorOf(b)] = ExitFunction(@, path)]
     /\ task' = [task EXCEPT ![b].pending = Tail(@)]
     /\ hist' = [hist EXCEPT ![b].open = @ \ {path},
                             ![b].exited = @ \cup {path}]
  /\ UNCHANGED <<publicIdToAssetSideEffects, config, logger>>

\* lines 81-189: visitVariableDeclaration(n)
VisitVariableDeclaration(b) ==
  /\ Visiting(b, "VariableDeclaration")
  /\ LET path == Head(task[b].pending).path
         n == NodeAt(task[b].ast, path)
         st == ClassifyDeclarations(visitor[VisitorOf(b)], n,
                                    task[b].bundleConfig.publicIdToAssetSideEffects)
         ast == ReplaceAt(task[b].ast, path, [n EXCEPT !.kids = st.declarations])
         unused == {st.unusedDeclIndexes[j] : j \in 1..Len(st.unusedDeclIndexes)}
         names == {n.kids[i].kids[1].value : i \in unused}
         warned == [j \in 1..Len(st.warned) |->
                      [bundle |-> b, publicId |-> st.warned[j]]]
     IN
     /\ visitor' = [visitor EXCEPT
          ![VisitorOf(b)].moduleVariables = st.moduleVariables,
          ![VisitorOf(b)].moduleVariableMap = st.moduleVariableMap,
          ![VisitorOf(b)].dirty = DirtyAfterLoop(@, st)]
     /\ hist' = [hist EXCEPT
          ![b].visited = @ \cup {path},
          ![b].nulled = @ \cup {path \o <<i>> : i \in unused},
          ![b].before = [p \in DOMAIN @ \cup {path \o <<i>> : i \in 1..Len(st.before)} |->
                           IF p \in DOMAIN @ THEN @[p]
                           ELSE [moduleVariables |-> st.before[p[Len(p)]].moduleVariables,
                                 moduleVariableMap |-> st.before[p[Len(p)]].moduleVariableMap,
                                 inModuleDefinition |-> visitor[VisitorOf(b)].inModuleDefinition]],
          ![b].captured = [p \in DOMAIN @ \cup {path \o <<st.unusedDeclIndexes[j]>> :
                                                   j \in 1..Len(st.unusedDeclIndexes)} |->
                             IF p \in DOMAIN @ THEN @[p]
                             ELSE st.captured[CHOOSE j \in 1..Len(st.unusedDeclIndexes) :
                                                st.unusedDeclIndexes[j] = p[Len(p)]]],
          ![b].scopes = [k \in DOMAIN @ \cup names |->
                           IF k \in names THEN hist[b].open ELSE @[k]],
          ![b].failure = IF st.threw THEN "visit" ELSE @]
     /\ IF st.threw
        THEN /\ task' = [task EXCEPT ![b] = CaughtTask([@ EXCEPT !.ast = ast])]
             /\ logger' = [logger EXCEPT
                  ![b] = CaughtLog([@ EXCEPT !.warn = @ \o warned], b, "visit")]
        ELSE /\ task' = [task EXCEPT
                  ![b].ast = ast,
                  ![b].pending = IF unused = {}
                                 THEN VisitChildren(ast, path) \o Tail(@)
                                 ELSE Tail(@)]
             /\ logger' = [logger EXCEPT ![b].warn = @ \o warned]
  /\ UNCHANGED <<publicIdToAssetSideEffects, config>>

\* lines 191-221: visitIdentifier(n)
VisitIdentifier(b) ==
  /\ Visiting(b, "Identifier")
  /\ LET path == Head(task[b].pending).path
         n == NodeAt(task[b].ast, path)
     IN
     IF IsTracked(visitor[VisitorOf(b)], n)
     THEN /\ task' = [task EXCEPT
               ![b].ast = ReplaceAt(@, path, Substitute(visitor[VisitorOf(b)], n)),
               ![b].pending = Tail(@)]
          /\ hist' = [hist EXCEPT
               ![b].visited = @ \cup {path},
               ![b].substituted = @ \cup
                 {[path |-> path, name |-> n.value,
                   expression |-> MapGet(visitor[VisitorOf(b)].moduleVariableMap, n.value),
                   scopes |-> hist[b].scopes[n.value],
                   open |-> hist[b].open,
                   inModuleDefinition |-> visitor[VisitorOf(b)].inModuleDefinition]}]
     ELSE /\ task' = [task EXCEPT ![b].pending = Tail(@)]
          /\ hist' = [hist EXCEPT ![b].visited = @ \cup {path}]
  /\ UNCHANGED <<publicIdToAssetSideEffects, config, visitor, logger>>

\* lines 261-263 and 273: visitProgram returns
VisitProgramReturns(b) ==
  /\ task[b].pc = "visit"
  /\ task[b].pending = <<>>
  /\ task' = [task EXCEPT ![b] =
       IF visitor[VisitorOf(b)].dirty THEN [@ EXCEPT !.pc = "print"]
       ELSE [@ EXCEPT !.pc = "done", !.result = InputResult(task[b])]]
  /\ UNCHANGED <<publicIdToAssetSideEffects, config, visitor, logger, hist>>

\* lines 263-264: print returns
PrintReturns(b) ==
  /\ task[b].pc = "print"
  /\ task' = [task EXCEPT ![b].pc = "done", ![b].result = PrintedResult(task[b])]
  /\ hist' = [hist EXCEPT ![b].prints = @ + 1]
  /\ UNCHANGED <<publicIdToAssetSideEffects, config, visitor, logger>>

\* line 263: print raises
PrintThrows(b) ==
  /\ task[b].pc = "print"
  /\ task' = [task EXCEPT ![b] = CaughtTask(@)]
  /\ logger' = [logger EXCEPT ![b] = CaughtLog(@, b, "print")]
  /\ hist' = [hist EXCEPT ![b].prints = @ + 1, ![b].failure = "print"]
  /\ UNCHANGED <<publicIdToAssetSideEffects, config, visitor>>

(***************************************************************************)
(* Specifications                                                          *)
(***************************************************************************)
NoConfig == [calls |-> 0, walks |-> 0, raised |-> 0, graph |-> <<>>, returned |-> <<>>]

\* the module is loaded; no bundle is being optimized
Init ==
  /\ publicIdToAssetSideEffects = NullIndex
  /\ config = NoConfig
  /\ task = [b \in AllBundles |-> IdleTask]
  /\ visitor = [b \in AllBundles |-> NewVisitor]
  /\ logger = [b \in AllBundles |-> NoLog]
  /\ hist = [b \in AllBundles |-> NewHist]

\* one bundle goes through optimize, with a config loadBundleConfig returned
Next ==
  \E b \in Bundles :
    \/ /\ task[b].pc = "idle"
       /\ \E program \in Programs, mode \in Modes, map \in Maps,
             bundleConfig \in BundleConfigs :
            Optimize(b, program, mode, map, bundleConfig)
    \/ OptimizeAgain(b)
    \/ ParseReturns(b)
    \/ ParseThrows(b)
    \/ VisitFunctionExpression(b)
    \/ LeaveFunctionExpression(b)
    \/ VisitVariableDeclaration(b)
    \/ VisitIdentifier(b)
    \/ VisitProgramReturns(b)
    \/ PrintReturns(b)
    \/ PrintThrows(b)

Spec == Init /\ [][Next]_vars

\* the calls of loadBundleConfig in one process
NextConfig ==
  \E graph \in Graphs : \E walked \in 0..Len(graph) : LoadBundleConfig(graph, walked)

SpecConfig == Init /\ [][NextConfig]_vars

(***************************************************************************)
(* What the claims speak of                                                *)
(***************************************************************************)
Index(b) == task[b].bundleConfig.publicIdToAssetSideEffects

\* the visitor of this optimize call was built (parse returned)
Traversing(b) == hist[b].visitors = 1

\* visitProgram returned to optimize
TraversalEnded(b) ==
  /\ hist[b].visitors = 1
  /\ hist[b].failure # "visit"
  /\ task[b].pc \in {"print", "done"}

\* `$X = require("<string literal>")` (or parcelRequire)
IsDirectRequire(decl) ==
  /\ decl.kids[2].type = "CallExpression"
  /\ ~RequireTestThrows(decl)
  /\ IsRequireBinding(decl)

\* `$XDefault = <call>` that the direct-require rule does not take
IsDefaultInterop(decl) ==
  /\ decl.kids[2].type = "CallExpression"
  /\ ~RequireTestThrows(decl)
  /\ ~IsRequireBinding(decl)
  /\ IsDefaultBinding(decl)

\* the paths of such declarators in the tree this run parsed
DirectRequires(b) ==
  {p \in hist[b].declarators : IsDirectRequire(NodeAt(hist[b].input, p))}
DefaultInterops(b) ==
  {p \in hist[b].declarators : IsDefaultInterop(NodeAt(hist[b].input, p))}

NameOf(tree, p) == NodeAt(tree, p).kids[1].value
InitOf(tree, p) == NodeAt(tree, p).kids[2]
PublicIdOf(tree, p) == Tail(NameOf(tree, p))

Factories(tree) ==
  {f \in Paths(tree) : /\ NodeAt(tree, f).type = "FunctionExpression"
                       /\ IsModuleDefinition(NodeAt(tree, f))}

\* the identifier at q is the `name` of `var name = ...`
IsDeclarationTarget(tree, q) ==
  /\ Len(q) > 0
  /\ q[Len(q)] = 1
  /\ NodeAt(tree, SubSeq(q, 1, Len(q) - 1)).type = "VariableDeclarator"

\* the read occurrences of `name`
Reads(tree, name) ==
  {q \in Paths(tree) : /\ NodeAt(tree, q) = Identifier(name)
                       /\ ~IsDeclarationTarget(tree, q)}

\* q comes after p in the text, outside p
ComesAfter(p, q) ==
  \E k \in 1..Len(p) :
    /\ k <= Len(q)
    /\ SubSeq(p, 1, k - 1) = SubSeq(q, 1, k - 1)
    /\ p[k] < q[k]

WarningsFor(b, publicId) ==
  {j \in 1..Len(logger[b].warn) : logger[b].warn[j].publicId = publicId}

(***************************************************************************)
(* C1  Inlining completeness: once the traversal has ended, every          *)
(* declarator `$X = require("...")` inside a module factory whose public   *)
(* id resolves with sideEffects = false has a null initializer, and every  *)
(* read of $X in that factory's body, wherever it stands, is the wrapped   *)
(* captured initializer (0, require("...")).                               *)
(***************************************************************************)
InliningCompleteness ==
  \A b \in Bundles :
    (hist[b].run = 1 /\ TraversalEnded(b)) =>
      \A p \in DirectRequires(b) : \A f \in Factories(hist[b].input) :
        ( /\ IsPrefix(f, p)
          /\ ~Unresolved(Index(b), PublicIdOf(hist[b].input, p))
          /\ ~Index(b).entries[PublicIdOf(hist[b].input, p)].sideEffects )
        =>
        /\ InitOf(task[b].ast, p) = NullNode
        /\ \A q \in Reads(hist[b].input, NameOf(hist[b].input, p)) :
             (IsPrefix(f, q) /\ ~IsPrefix(p, q) /\ HasPath(task[b].ast, q)) =>
               NodeAt(task[b].ast, q) =
                 getReplacementExpression(InitOf(hist[b].input, p))

(***************************************************************************)
(* C2  Side-effect preservation.                                           *)
(***************************************************************************)
SideEffecting(b) ==
  {p \in DirectRequires(b) :
     /\ ~Unresolved(Index(b), PublicIdOf(hist[b].input, p))
     /\ Index(b).entries[PublicIdOf(hist[b].input, p)].sideEffects}

\* the declarators either rule of visitVariableDeclaration could take
Candidates(b) == DirectRequires(b) \cup DefaultInterops(b)

\* C2, last part: when the side-effecting declarator is the only candidate
\* binding, the pass reports no change and returns its input
OnlyCandidateUnchanged(b, p) ==
  (task[b].pc = "done" /\ Candidates(b) = {p}) =>
    /\ ~visitor[b].dirty
    /\ task[b].result = [contents |-> task[b].contents, map |-> task[b].map]

UnresolvedRequires(b) ==
  {p \in DirectRequires(b) :
     Unresolved(Index(b), PublicIdOf(hist[b].input, p))}

UnresolvableIdConservatism ==
  \A b \in Bundles :
    (hist[b].run = 1 /\ Traversing(b)) =>
      \A p \in UnresolvedRequires(b) :
        /\ InitOf(task[b].ast, p) = InitOf(hist[b].input, p)
        /\ p \notin hist[b].nulled
        /\ NameOf(hist[b].input, p) \notin visitor[b].moduleVariables
        /\ \A s \in hist[b].substituted : s.name # NameOf(hist[b].input, p)
        /\ Cardinality(WarningsFor(b, PublicIdOf(hist[b].input, p))) =
             Cardinality({q \in UnresolvedRequires(b) \cap DOMAIN hist[b].before :
                            NameOf(hist[b].input, q) = NameOf(hist[b].input, p)})

(***************************************************************************)
(* C4  optimize is total: whichever stage raises (parse, the traversal,    *)
(* also after it has changed the tree, or print), optimize ends by         *)
(* returning the contents and map it was given, with exactly one error     *)
(* logged that carries the bundle name, the failure message and the stack; *)
(* nothing is logged as an error otherwise.                                *)
(***************************************************************************)
OptimizeIsTotal ==
  \A b \in Bundles :
    /\ task[b].pc \in {"idle", "parse", "visit", "print", "done"}
    /\ hist[b].failure = "" => logger[b].error = <<>>
    /\ hist[b].failure # "" =>
         /\ task[b].pc = "done"
         /\ task[b].result = [contents |-> task[b].contents, map |-> task[b].map]
         /\ Len(logger[b].error) = 1
         /\ logger[b].error[1].bundle = b
         /\ logger[b].error[1].message =
              <<"Unable to optimise requires for", b, hist[b].failure, "failed">>
         /\ logger[b].error[1].stack = <<"at", hist[b].failure>>

\* the traversal raised after it had nulled a declarator
OptimizeIsTotalWitness ==
  \E b \in Bundles :
    /\ hist[b].failure = "visit"
    /\ hist[b].nulled # {}
    /\ task[b].ast # Parse(task[b].contents)
    /\ task[b].pc = "done"

(***************************************************************************)
(* C5  Mode gating: when the mode is not production, optimize returns the  *)
(* contents and map it was given without parsing, without building or      *)
(* running a visitor, without printing and without logging.                *)
(***************************************************************************)
ModeGating ==
  \A b \in Bundles :
    (task[b].pc # "idle" /\ task[b].mode # "production") =>
      /\ task[b].pc = "done"
      /\ task[b].result = [contents |-> task[b].contents, map |-> task[b].map]
      /\ hist[b].parses = 0
      /\ hist[b].visitors = 0
      /\ hist[b].prints = 0
      /\ task[b].ast = NullNode
      /\ hist[b].visited = {}
      /\ logger[b] = NoLog

\* a bundle with a binding the pass would inline went through in development mode
ModeGatingWitness ==
  \E b \in Bundles :
    /\ task[b].pc = "done"
    /\ task[b].mode = "development"
    /\ \E p \in Paths(Parse(task[b].contents)) :
         LET decl == NodeAt(Parse(task[b].contents), p) IN
         /\ decl.type = "VariableDeclarator"
         /\ IsDirectRequire(decl)
         /\ ~Unresolved(Index(b), Tail(decl.kids[1].value))
         /\ ~Index(b).entries[Tail(decl.kids[1].value)].sideEffects

(***************************************************************************)
(* C6  Idempotence: a second run of the traversal, on the tree the first   *)
(* run produced and with the same index, nulls no declarator, registers no *)
(* binding, substitutes no identifier and leaves DirtyFlag false.          *)
(***************************************************************************)
Idempotence ==
  \A b \in Bundles :
    (hist[b].run = 2 /\ Traversing(b)) =>
      /\ hist[b].nulled = {}
      /\ hist[b].substituted = {}
      /\ visitor[b].moduleVariables = {}
      /\ ~visitor[b].dirty

(***************************************************************************)
(* C7  Default-interop chaining: a declarator B = `$...Default = <call>`   *)
(* whose base name A is registered when B is classified is nulled and      *)
(* registered under its call with A's captured expression as first         *)
(* argument, the pass is dirty, and every later read of B is (0, <that     *)
(* call>); when A is not registered, B is left as it was.                  *)
(***************************************************************************)
BaseOf(name) == SubSeq(name, 1, Len(name) - 1)

DefaultInteropChaining ==
  \A b \in Bundles :
    (hist[b].run = 1 /\ Traversing(b)) =>
      \A p \in DefaultInterops(b) \cap DOMAIN hist[b].before :
        LET B == NameOf(hist[b].input, p)
            init == InitOf(hist[b].input, p)
            was == hist[b].before[p]
        IN
        IF BaseOf(B) \in was.moduleVariables
        THEN /\ p \in hist[b].nulled
             /\ InitOf(task[b].ast, p) = NullNode
             /\ hist[b].captured[p] =
                  [init EXCEPT !.kids[1] = was.moduleVariableMap[BaseOf(B)]]
             /\ hist[b].failure = "" => visitor[b].dirty
             /\ TraversalEnded(b) =>
                  \A q \in Reads(hist[b].input, B) :
                    (ComesAfter(p, q) /\ HasPath(task[b].ast, q)) =>
                      NodeAt(task[b].ast, q) =
                        getReplacementExpression(hist[b].captured[p])
        ELSE /\ p \notin hist[b].nulled
             /\ InitOf(task[b].ast, p) = init

(***************************************************************************)
(* C8  Scope isolation: a binding registered while a module factory F was  *)
(* being traversed is used for a substitution only while F is still being  *)
(* traversed.                                                              *)
(***************************************************************************)
ScopeIsolation ==
  \A b \in Bundles :
    \A s \in hist[b].substituted : s.scopes \subseteq s.open

(***************************************************************************)
(* C9  Classifier gating: a declarator classified while no module factory  *)
(* is active (inModuleDefinition is false) is not nulled and registers     *)
(* nothing.                                                                *)
(***************************************************************************)
ClassifierGating ==
  \A b \in Bundles :
    \A p \in DOMAIN hist[b].before :
      hist[b].before[p].inModuleDefinition = <<>> =>
        /\ p \notin hist[b].nulled
        /\ p \notin DOMAIN hist[b].captured

(***************************************************************************)
(* C10  Index memoization: over any sequence of loadBundleConfig calls the *)
(* graph is walked once, by the first call, and every value a call has     *)
(* returned is the index as it is now: later calls return the same index   *)
(* and nothing changes it after it was returned.                           *)
(***************************************************************************)
IndexMemoization ==
  /\ config.walks = IF config.calls = 0 THEN 0 ELSE 1
  /\ \A i \in 1..Len(config.returned) :
       config.returned[i] = publicIdToAssetSideEffects
  /\ Len(config.returned) + config.raised = config.calls

\* calls after the first returned the index the first call built from a graph
\* with assets
IndexMemoizationWitness ==
  /\ config.calls = MaxCalls
  /\ config.raised = 0
  /\ Len(config.returned) = MaxCalls
  /\ DOMAIN publicIdToAssetSideEffects.entries # {}

(***************************************************************************)
(* C11  Only a completed index is observable: every index a call of        *)
(* loadBundleConfig has returned holds an entry for every asset node of    *)
(* the graph the constructing call walked, also when that walk raised      *)
(* before its end; a graph without nodes gives an empty index and no       *)
(* raise.                                                                  *)
(***************************************************************************)
AssetIds(graph) ==
  {graph[k].value.publicId : k \in {j \in 1..Len(graph) : graph[j].type = "asset"}}

CompletedIndexOnly ==
  /\ \A i \in 1..Len(config.returned) :
       AssetIds(config.graph) \subseteq DOMAIN config.returned[i].entries
  /\ (config.calls > 0 /\ config.graph = <<>>) =>
       /\ config.raised = 0
       /\ config.returned[1].entries = EmptyEntries

(***************************************************************************)
(* C12  Factory exit by identity: while module factory F is being          *)
(* traversed and no factory nested in F is, the tracker names F and the    *)
(* bindings registered in F's own body are still in the binding table,     *)
(* whatever function expressions nested in F have been visited before.     *)
(***************************************************************************)
\* the module factories the traversal has entered
EnteredFactories(b) ==
  {f \in hist[b].open \cup hist[b].exited :
     IsModuleDefinition(NodeAt(hist[b].input, f))}

\* the innermost factories still open
InnermostOpen(b) ==
  {f \in hist[b].open : \A g \in hist[b].open : IsPrefix(f, g) => g = f}

\* the declarators nulled in f's body, outside the factories nested in f
RegisteredIn(b, f) ==
  {p \in hist[b].nulled :
     /\ IsPrefix(f, p)
     /\ \A g \in EnteredFactories(b) : (IsPrefix(f, g) /\ IsPrefix(g, p)) => g = f}

FactoryExitByIdentity ==
  \A b \in Bundles :
    (Traversing(b) /\ task[b].pc = "visit") =>
      \A f \in InnermostOpen(b) :
        /\ visitor[b].inModuleDefinition = <<f>>
        /\ \A p \in RegisteredIn(b, f) :
             NameOf(hist[b].input, p) \in visitor[b].moduleVariables

(***************************************************************************)
(* C13  DirtyFlag exactness: when the traversal has ended, dirty is true   *)
(* if and only if a declarator was nulled or an identifier was             *)
(* substituted; dirty is never true without a nulled declarator, and no    *)
(* identifier is substituted while dirty is false.                         *)
(***************************************************************************)
DirtyFlagExactness ==
  \A b \in Bundles :
    Traversing(b) =>
      /\ visitor[b].dirty => hist[b].nulled # {}
      /\ hist[b].substituted # {} => visitor[b].dirty
      /\ TraversalEnded(b) =>
           (visitor[b].dirty <=> (hist[b].nulled # {} \/ hist[b].substituted # {}))

\* a traversal that substituted an identifier ended dirty, and was printed
DirtyFlagExactnessWitness ==
  \E b \in Bundles :
    /\ TraversalEnded(b)
    /\ hist[b].substituted # {}
    /\ visitor[b].dirty
    /\ hist[b].prints = 1

(***************************************************************************)
(* C14  Declaration targets are never substituted: no identifier that is   *)
(* the declared name of a variable declarator is replaced by (0, <expr>),  *)
(* also when it declares again a name that is in the binding table.        *)
(***************************************************************************)
DeclarationTargetsKept ==
  \A b \in Bundles :
    \A s \in hist[b].substituted : ~IsDeclarationTarget(hist[b].input, s.path)

(***************************************************************************)
(* C15  Driver output and frame: whenever optimize has returned, the map   *)
(* it returns is the map it was given; the text it returns is the print of *)
(* the mutated tree exactly when the mode is production, nothing raised,   *)
(* and the traversal ended dirty, and is the text it was given otherwise.  *)
(***************************************************************************)
\* parse, the traversal and print all returned, and the traversal left dirty set
PrintedRun(b) ==
  /\ task[b].mode = "production"
  /\ hist[b].failure = ""
  /\ hist[b].parses = 1
  /\ hist[b].visitors = 1
  /\ visitor[b].dirty
  /\ hist[b].prints = 1

DriverOutputAndFrame ==
  \A b \in Bundles :
    task[b].pc = "done" =>
      /\ task[b].result.map = task[b].map
      /\ IF PrintedRun(b)
         THEN /\ task[b].result.contents = PrintCode(task[b].ast)
              /\ task[b].ast # hist[b].input
         ELSE task[b].result.contents = task[b].contents

\* a dirty traversal was printed: the text returned differs from the text given
DriverOutputAndFrameWitness ==
  \E b \in Bundles :
    /\ task[b].pc = "done"
    /\ PrintedRun(b)
    /\ task[b].result.contents # task[b].contents
    /\ task[b].result.map = "bundle.js.map"

(***************************************************************************)
(* C16  Substitution shape: every identifier visited while its name is in  *)
(* the binding table has become a ParenthesisExpression around a           *)
(* SequenceExpression of the numeric literal 0 and the expression captured *)
(* when that name was registered; every other visited identifier is as it  *)
(* was.                                                                    *)
(***************************************************************************)
\* the identifiers handed to visitIdentifier
VisitedIdentifiers(b) ==
  {q \in hist[b].visited : NodeAt(hist[b].input, q).type = "Identifier"}

SubstitutionShape ==
  \A b \in Bundles :
    Traversing(b) =>
      /\ \A s \in hist[b].substituted :
           LET n == NodeAt(task[b].ast, s.path) IN
           /\ s.path \in VisitedIdentifiers(b)
           /\ n.type = "ParenthesisExpression"
           /\ Len(n.kids) = 1
           /\ n.kids[1].type = "SequenceExpression"
           /\ Len(n.kids[1].kids) = 2
           /\ n.kids[1].kids[1] = [type |-> "NumericLiteral", value |-> <<"0">>,
                                   kids |-> <<>>]
           /\ n.kids[1].kids[2] = s.expression
           /\ \E p \in DOMAIN hist[b].captured :
                /\ NameOf(hist[b].input, p) = s.name
                /\ hist[b].captured[p] = s.expression
      /\ \A q \in VisitedIdentifiers(b) :
           (\A r \in hist[b].substituted : r.path # q) =>
             NodeAt(task[b].ast, q) = NodeAt(hist[b].input, q)

\* a read of a default-interop binding, inside the factory that registered
\* it, was replaced by its composite expression
SubstitutionShapeWitness ==
  \E b \in Bundles :
    /\ TraversalEnded(b)
    /\ \E s \in hist[b].substituted :
         /\ s.name = ADefault
         /\ s.expression = InteropDefault(Require(<<"a">>))
         /\ s.scopes \subseteq s.open
         /\ s.open # {}

(***************************************************************************)
(* Bundles in flight together.  optimize suspends at `await parse` (line   *)
(* 255) and at `await print` (line 263) only: from the return of parse to  *)
(* the call of print, or to the return, an invocation runs without         *)
(* another one being scheduled.  All invocations are handed the one index  *)
(* loadBundleConfig built.                                                 *)
(***************************************************************************)
\* var {p} = require("a");
DestructureA ==
  VariableDeclaration(<<VariableDeclarator(ObjectPattern, Require(<<"a">>))>>)

\* bundles whose traversal substitutes, changes nothing, or raises after it
\* has nulled a declarator
ConcurrentPrograms ==
  {Program(<<Factory(<<DeclareA, ReadA>>)>>),
   Program(<<Factory(<<ReadA>>)>>),
   Program(<<Factory(<<DeclareA, DestructureA>>)>>)}

\* no other invocation is in the middle of its traversal
NoTraversalElsewhere(b) ==
  \A c \in AllBundles \ {b} : task[c].pc # "visit"

InitConcurrent ==
  /\ publicIdToAssetSideEffects \in
       {c.publicIdToAssetSideEffects : c \in BundleConfigs}
  /\ config = NoConfig
  /\ task = [b \in AllBundles |-> IdleTask]
  /\ visitor = [b \in AllBundles |-> NewVisitor]
  /\ logger = [b \in AllBundles |-> NoLog]
  /\ hist = [b \in AllBundles |-> NewHist]

NextConcurrent ==
  \E b \in AllBundles :
    /\ NoTraversalElsewhere(b)
    /\ \/ /\ task[b].pc = "idle"
          /\ \E program \in ConcurrentPrograms, mode \in Modes, map \in Maps :
               Optimize(b, program, mode, map,
                        [publicIdToAssetSideEffects |-> publicIdToAssetSideEffects])
       \/ ParseReturns(b)
       \/ ParseThrows(b)
       \/ VisitFunctionExpression(b)
       \/ LeaveFunctionExpression(b)
       \/ VisitVariableDeclaration(b)
       \/ VisitIdentifier(b)
       \/ VisitProgramReturns(b)
       \/ PrintReturns(b)
       \/ PrintThrows(b)

SpecConcurrent == InitConcurrent /\ [][NextConcurrent]_vars

(***************************************************************************)
(* One invocation on its own: visitProgram as a function of the tree and   *)
(* the index, and the value optimize returns given which await raised.     *)
(***************************************************************************)
\* one visit, or the end of a function expression's visit
VisitStep(s, index) ==
  LET path == Head(s.pending).path
      n == NodeAt(s.ast, path)
  IN
  IF Head(s.pending).op = "leave"
  THEN [s EXCEPT !.v = ExitFunction(@, path), !.pending = Tail(@)]
  ELSE IF n.type = "FunctionExpression"
  THEN [s EXCEPT !.v = EnterFunction(@, n, path),
                 !.pending = VisitChildren(s.ast, path)
                               \o <<[op |-> "leave", path |-> path]>> \o Tail(@)]
  ELSE IF n.type = "VariableDeclaration"
  THEN LET st == ClassifyDeclarations(s.v, n, index)
           ast == ReplaceAt(s.ast, path, [n EXCEPT !.kids = st.declarations])
       IN [ast |-> ast,
           pending |-> IF st.unusedDeclIndexes = <<>>
                       THEN VisitChildren(ast, path) \o Tail(s.pending)
                       ELSE Tail(s.pending),
           v |-> [s.v EXCEPT !.moduleVariables = st.moduleVariables,
                             !.moduleVariableMap = st.moduleVariableMap,
                             !.dirty = DirtyAfterLoop(@, st)],
           threw |-> st.threw]
  ELSE IF IsTracked(s.v, n)
  THEN [s EXCEPT !.ast = ReplaceAt(@, path, Substitute(s.v, n)),
                 !.pending = Tail(@)]
  ELSE [s EXCEPT !.pending = Tail(@)]

RECURSIVE VisitAll(_, _)
VisitAll(s, index) ==
  IF s.threw \/ s.pending = <<>> THEN s ELSE VisitAll(VisitStep(s, index), index)

\* lines 256-261: a new visitor walks the tree
visitProgram(ast, index) ==
  VisitAll([ast |-> ast, pending |-> Dispatch(ast, <<>>), v |-> NewVisitor,
            threw |-> FALSE], index)

\* lines 249-274: what optimize returns for the arguments in t; `failure` is
\* the await that raised ("parse", "print") if one did
OptimizeAlone(t, failure) ==
  LET unchanged == [contents |-> t.contents, map |-> t.map]
      s == visitProgram(Parse(t.contents), t.bundleConfig.publicIdToAssetSideEffects)
  IN
  IF t.mode # "production" \/ failure = "parse" THEN unchanged
  ELSE IF s.threw \/ ~s.v.dirty \/ failure = "print" THEN unchanged
  ELSE [contents |-> PrintCode(s.ast), map |-> t.map]

(***************************************************************************)
(* C17  Bundle independence under interleaving: with two invocations in    *)
(* flight and their steps interleaved at the parse and print suspension    *)
(* points, each invocation returns what it returns on its own and ends     *)
(* with the tree and the visitor (tracker, binding table, DirtyFlag) its   *)
(* own traversal produces; at most one traversal is in progress at a time; *)
(* every invocation reads the one shared index, which stays as built.      *)
(***************************************************************************)
BundleIndependence ==
  /\ Cardinality({b \in AllBundles : task[b].pc = "visit"}) <= 1
  /\ \A b \in AllBundles :
       /\ task[b].pc # "idle" =>
            task[b].bundleConfig.publicIdToAssetSideEffects = publicIdToAssetSideEffects
       /\ task[b].pc = "done" =>
            /\ task[b].result = OptimizeAlone(task[b], hist[b].failure)
            /\ hist[b].visitors = 1 =>
                 LET s == visitProgram(Parse(task[b].contents), publicIdToAssetSideEffects)
                 IN /\ task[b].ast = s.ast
                    /\ visitor[b] = s.v
                    /\ s.threw <=> hist[b].failure = "visit"

\* an invocation that began while the other was in flight printed its tree,
\* and the other, given a different bundle, has returned as well
BundleIndependenceWitness ==
  \E b \in AllBundles : \E c \in AllBundles \ {b} :
    /\ task[b].pc = "done"
    /\ hist[b].concurrent
    /\ hist[b].prints = 1
    /\ hist[b].failure = ""
    /\ hist[b].substituted # {}
    /\ task[c].pc = "done"
    /\ hist[c].visitors = 1
    /\ task[c].contents # task[b].contents

(***************************************************************************)
(* C18  Tracker terminal state: when visitProgram has returned, whatever   *)
(* the nesting of function expressions, inModuleDefinition is false; and   *)
(* every step that enters a module factory leaves the tracker naming that  *)
(* factory with an empty binding table.                                    *)
(***************************************************************************)
TerminalOutside ==
  \A b \in Bundles :
    TraversalEnded(b) => visitor[b].inModuleDefinition = <<>>

EntryStartsEmpty ==
  \A b \in Bundles :
    \A f \in hist'[b].open \ hist[b].open :
      /\ visitor'[b].inModuleDefinition = <<f>>
      /\ visitor'[b].moduleVariables = {}
      /\ visitor'[b].moduleVariableMap = EmptyVariableMap

TrackerTerminalState == []TerminalOutside /\ [][EntryStartsEmpty]_vars

\* the traversal of a factory with a factory nested in it, and a binding
\* registered, has ended
TrackerTerminalStateWitness ==
  \E b \in Bundles :
    /\ TraversalEnded(b)
    /\ hist[b].nulled # {}
    /\ hist[b].open = {}
    /\ \E f \in EnteredFactories(b) : \E g \in EnteredFactories(b) :
         IsPrefix(f, g) /\ f # g

(***************************************************************************)
(* C19  Registration and nulling go together: the declarators whose        *)
(* initializer this pass has set to null are exactly those it captured a   *)
(* call expression for; the step that nulls a declarator leaves its name   *)
(* in the binding table, mapped to that capture; and the traversal never   *)
(* goes on to another node with a declarator nulled and dirty not set.     *)
(***************************************************************************)
NulledIffCaptured ==
  \A b \in Bundles :
    Traversing(b) =>
      /\ DOMAIN hist[b].captured = hist[b].nulled
      /\ \A p \in hist[b].declarators :
           p \in hist[b].nulled <=>
             /\ InitOf(task[b].ast, p) = NullNode
             /\ InitOf(hist[b].input, p) # NullNode
      /\ \A p \in hist[b].nulled : hist[b].captured[p].type = "CallExpression"
      /\ (task[b].pc = "visit" /\ hist[b].nulled # {}) => visitor[b].dirty

\* a step that nulls declarators registers their names: each name is in the
\* table, under the capture of the last declarator of that name
NullingRegisters ==
  \A b \in Bundles :
    LET new == hist'[b].nulled \ hist[b].nulled IN
    (hist'[b].run = hist[b].run) =>
      \A p \in new :
        LET name == NameOf(hist[b].input, p) IN
        /\ name \in visitor'[b].moduleVariables
        /\ name \in DOMAIN visitor'[b].moduleVariableMap
        /\ (\A q \in new : NameOf(hist[b].input, q) = name => q[Len(q)] <= p[Len(p)])
             => visitor'[b].moduleVariableMap[name] = hist'[b].captured[p]

RegistrationAndNulling == []NulledIffCaptured /\ [][NullingRegisters]_vars

\* one statement nulled a require and the default-interop binding built on
\* it, and the traversal went on
RegistrationAndNullingWitness ==
  \E b \in Bundles :
    /\ task[b].pc = "visit"
    /\ visitor[b].dirty
    /\ \E p \in hist[b].nulled \cap DirectRequires(b) :
         \E q \in hist[b].nulled \cap DefaultInterops(b) :
           /\ SubSeq(p, 1, Len(p) - 1) = SubSeq(q, 1, Len(q) - 1)
           /\ hist[b].captured[q].kids[1] = hist[b].captured[p]

(***************************************************************************)
(* C20  Table consistency: moduleVariables is the key set of               *)
(* moduleVariableMap, every key maps to a call expression none of whose    *)
(* arguments is undefined, and no replacement was built around anything    *)
(* else.                                                                   *)
(***************************************************************************)
IsDefinedCall(e) ==
  /\ e.type = "CallExpression"
  /\ \A i \in 1..Len(e.kids) : e.kids[i] # UndefinedNode

TableConsistency ==
  \A b \in Bundles :
    /\ visitor[b].moduleVariables = DOMAIN visitor[b].moduleVariableMap
    /\ \A k \in DOMAIN visitor[b].moduleVariableMap :
         IsDefinedCall(visitor[b].moduleVariableMap[k])
    /\ \A s \in hist[b].substituted : IsDefinedCall(s.expression)

\* inside a factory, the table holds a require and the default-interop
\* binding built on it, and a read has been replaced
TableConsistencyWitness ==
  \E b \in Bundles :
    /\ task[b].pc = "visit"
    /\ hist[b].open # {}
    /\ visitor[b].moduleVariables = {A, ADefault}
    /\ visitor[b].moduleVariableMap[ADefault].kids[1] = visitor[b].moduleVariableMap[A]
    /\ hist[b].substituted # {}

====
